---- MODULE Spec2Model ----
(***************************************************************************)
(* Model of the language server's virtual file system (lsp/src/vfs.rs):    *)
(* `Vfs` (URI -> FileId bridge, per-file slots, change journal) and        *)
(* `LineMap` (byte offset <-> (line, UTF-16 column) translation).          *)
(*                                                                         *)
(* A text is a record [body, pad]: the bytes `body` followed by `pad` MiB  *)
(* of filler bytes 'x' (0x78).  The filler only stands for length: it      *)
(* holds no '\r', no '\n' and no non-ASCII byte, so every scan of the code *)
(* over the text has its whole effect on `body`, and `text.len()` is       *)
(* Len(body) + pad * MiB.  This lets texts longer than MAX_FILE_LEN and    *)
(* than u32::MAX be inputs.  TLC's integers are 32-bit signed, so lengths  *)
(* above u32::MAX are compared limb-wise (MiB, bytes) and every u32 the    *)
(* model computes is below 2^31, where u32 arithmetic cannot wrap.         *)
(*                                                                         *)
(* Option<T> is modelled as a sequence of length at most one.              *)
(***************************************************************************)
EXTENDS Integers, Sequences, FiniteSets, TLC

None == <<>>
Some(x) == <<x>>
IsSome(o) == o # <<>>
Unwrap(o) == o[1]

\* ---------------------------------------------------------------- bounds
\* Longest text body (in codepoints) given to LineMap::normalize.
MaxChars == 3
\* Largest number of FileIds the Vfs allocates in a run.
MaxFiles == 2
\* How far past the end of a text line_col / pos are queried.
MaxSlack == 1

\* ------------------------------------------------------------- constants
MiB == 1048576
\* u32::MAX == U32_MAX_MIB * MiB + (MiB - 1)
U32_MAX_MIB == 4095
\* 128 << 20
MAX_FILE_LEN == 128 * MiB

CR == 13
LF == 10

\* ------------------------------------------------------------------ text
Text(body, pad) == [body |-> body, pad |-> pad]
TextLen(t) == Len(t.body) + t.pad * MiB
\* text.len() > u32::MAX as usize
ExceedsU32(t) ==
    LET hi == t.pad + (Len(t.body) \div MiB)
        lo == Len(t.body) % MiB
    IN  hi > U32_MAX_MIB \/ (hi = U32_MAX_MIB /\ lo > MiB - 1)

\* UTF-8 encodings of the codepoints texts are built from:
\* 'a', '\n', '\r', U+00DF (2 bytes), U+211D (3 bytes), U+1F4A3 (4 bytes).
Codepoints ==
    { <<97>>, <<LF>>, <<CR>>, <<195, 159>>, <<226, 132, 157>>, <<240, 159, 146, 163>> }

RECURSIVE Concat(_)
Concat(ss) == IF ss = <<>> THEN <<>> ELSE Head(ss) \o Concat(Tail(ss))

\* Every valid UTF-8 string of at most n codepoints over Codepoints.
Strings(n) == { Concat(cs) : cs \in UNION { [1..k -> Codepoints] : k \in 0..n } }

\* bytes.iter().zip(0u32..).filter(|(b, _)| **b == b'\n').map(|(_, i)| i + 1):
\* the offsets just after each newline, ascending.
AfterNewlines(body) == SelectSeq([i \in 1..Len(body) |-> i], LAMBDA i : body[i] = LF)

\* Variant of RemoveCR: the text is kept as it came.
RemoveCR_keep(t) == Text(t.body, t.pad)

\* ------------------------------------------------------ LineMap::normalize
\* String::replace('\r', "")
RemoveCR(t) == Text(SelectSeq(t.body, LAMBDA b : b # CR), t.pad)

\* Variant of LineStarts: a line starts at its newline (i instead of i + 1).
LineStarts_at_newline(t) ==
    <<0>> \o [j \in 1..Len(AfterNewlines(t.body)) |->
                 AfterNewlines(t.body)[j] - 1] \o <<TextLen(t)>>

\* Some(0).chain(bytes.zip(0u32..).filter(b == '\n').map(i + 1)), then
\* push(text.len() as u32)
LineStarts(t) ==
    <<0>> \o AfterNewlines(t.body) \o <<TextLen(t)>>

\* Variant of CodeUnitsDiff: a 3-byte codepoint counted like a 2-byte one.
CodeUnitsDiff_three_as_one(b) ==
    IF b <= 127 THEN 0
    ELSE IF b <= 191 THEN 0
    ELSE IF b <= 223 THEN 1
    ELSE IF b <= 239 THEN 1
    ELSE 2

\* The match on the byte: 0 stands for `continue`.
CodeUnitsDiff(b) ==
    IF b <= 127 THEN 0
    ELSE IF b <= 191 THEN 0
    ELSE IF b <= 223 THEN 1
    ELSE IF b <= 239 THEN 2
    ELSE 2

\* The inner loop over bytes[start..end]: (pos, diff) of every listed byte.
LineDiffs(t, start, end) ==
    LET n == (IF end <= Len(t.body) THEN end ELSE Len(t.body)) - start
        m == IF n < 0 THEN 0 ELSE n
        idx == SelectSeq([k \in 1..m |-> k],
                         LAMBDA k : CodeUnitsDiff(t.body[start + k]) # 0)
    IN  [j \in 1..Len(idx) |-> <<idx[j] - 1, CodeUnitsDiff(t.body[start + idx[j]])>>]

\* The outer loop: only non-empty lists are inserted.
CharDiffs(t, line_starts) ==
    LET lines == { i \in 0..(Len(line_starts) - 2) :
                     LineDiffs(t, line_starts[i + 1], line_starts[i + 2]) # <<>> }
    IN  [i \in lines |-> LineDiffs(t, line_starts[i + 1], line_starts[i + 2])]

normalize(text) ==
    IF ExceedsU32(text) THEN None
    ELSE LET t == RemoveCR(text)
             ls == LineStarts(t)
         IN  Some([text |-> t,
                   map  |-> [line_starts |-> ls, char_diffs |-> CharDiffs(t, ls)]])

\* ------------------------------------------------------------ LineMap::pos
\* Variant of PosAdjust: char_pos <= col instead of char_pos < col.
RECURSIVE PosAdjust_inclusive(_, _)
PosAdjust_inclusive(diffs, col) ==
    IF diffs = <<>> THEN col
    ELSE PosAdjust_inclusive(Tail(diffs),
                   IF Head(diffs)[1] <= col THEN col + Head(diffs)[2] ELSE col)

RECURSIVE PosAdjust(_, _)
PosAdjust(diffs, col) ==
    IF diffs = <<>> THEN col
    ELSE PosAdjust(Tail(diffs),
                   IF Head(diffs)[1] < col THEN col + Head(diffs)[2] ELSE col)

\* Variant of pos: an out-of-range line falls back to the last entry of
\* line_starts instead of 0.
pos_last_line(map, line, col) ==
    LET base  == IF line < Len(map.line_starts) THEN map.line_starts[line + 1]
                 ELSE map.line_starts[Len(map.line_starts)]
        diffs == IF line \in DOMAIN map.char_diffs THEN map.char_diffs[line] ELSE <<>>
    IN  base + PosAdjust(diffs, col)

pos(map, line, col) ==
    LET base  == IF line < Len(map.line_starts) THEN map.line_starts[line + 1] ELSE 0
        diffs == IF line \in DOMAIN map.char_diffs THEN map.char_diffs[line] ELSE <<>>
    IN  base + PosAdjust(diffs, col)

\* ------------------------------------------------------- LineMap::line_col
\* slice::partition_point(|&i| i <= p): length of the prefix satisfying it.
PartitionPoint(s, p) ==
    CHOOSE k \in 0..Len(s) :
        /\ \A i \in 1..k : s[i] <= p
        /\ k < Len(s) => ~(s[k + 1] <= p)

RECURSIVE SumTakeWhile(_, _)
SumTakeWhile(diffs, col) ==
    IF diffs = <<>> \/ ~(Head(diffs)[1] < col) THEN 0
    ELSE Head(diffs)[2] + SumTakeWhile(Tail(diffs), col)

line_col(map, p) ==
    LET pp    == PartitionPoint(map.line_starts, p)
        line  == IF pp = 0 THEN 0 ELSE pp - 1
        col   == p - map.line_starts[line + 1]
        diffs == IF line \in DOMAIN map.char_diffs THEN map.char_diffs[line] ELSE <<>>
    IN  <<line, col - SumTakeWhile(diffs, col)>>


\* ---------------------------------------------------------------- FileSet
\* Two mirror maps FileId -> VfsPath and VfsPath -> FileId.
EmptyFn == [x \in {} |-> x]
Without(f, k) == [x \in (DOMAIN f) \ {k} |-> f[x]]

FileSet_default == [files |-> EmptyFn, paths |-> EmptyFn]

FileSet_insert(fs, file, path) ==
    [files |-> (file :> path) @@ fs.files, paths |-> (path :> file) @@ fs.paths]

FileSet_remove_file(fs, file) ==
    IF file \in DOMAIN fs.files
    THEN [files |-> Without(fs.files, file), paths |-> Without(fs.paths, fs.files[file])]
    ELSE fs

get_file_for_path(fs, path) ==
    IF path \in DOMAIN fs.paths THEN Some(fs.paths[path]) ELSE None

get_path_for_file(fs, file) ==
    IF file \in DOMAIN fs.files THEN Some(fs.files[file]) ELSE None

\* ------------------------------------------------------------------ Change
\* Per-file overlay (absent | Some(text) | None = removed) and optional roots.
Change_default == [file_changes |-> EmptyFn, roots |-> None]

change_file(c, file, content) ==
    [c EXCEPT !.file_changes = (file :> content) @@ @]

set_roots(c, roots) == [c EXCEPT !.roots = Some(roots)]

SourceRoot_new_local(file_set) == [file_set |-> file_set, local |-> TRUE]

\* --------------------------------------------------------------------- Vfs
\* A URI is its scheme and the components of its path.
Uri(scheme, path) == [scheme |-> scheme, path |-> path]
local_root == <<"ws">>

\* Vfs::new
Vfs_new ==
    [files |-> <<>>, local_file_set |-> FileSet_default,
     root_changed |-> FALSE, change |-> Change_default]

\* Path::strip_prefix
strip_prefix(path, prefix) ==
    IF Len(prefix) <= Len(path) /\ SubSeq(path, 1, Len(prefix)) = prefix
    THEN Some(SubSeq(path, Len(prefix) + 1, Len(path)))
    ELSE None

\* VfsPath::from_path: the relative path as an absolute logical path "/rel".
VfsPath_from_path(rel) == Some(<<"/">> \o rel)

\* Variant of uri_to_vpath: a path outside local_root is kept whole.
uri_to_vpath_any(uri) ==
    LET relative_path == strip_prefix(uri.path, local_root)
    IN  IF relative_path = None THEN VfsPath_from_path(uri.path)
        ELSE VfsPath_from_path(Unwrap(relative_path))

uri_to_vpath(uri) ==
    LET relative_path == strip_prefix(uri.path, local_root)
    IN  IF relative_path = None THEN None
        ELSE VfsPath_from_path(Unwrap(relative_path))

\* Variant of alloc_file_id: the first empty slot is handed out again.
alloc_file_id_reuse(v) ==
    IF \E i \in 1..Len(v.files) : v.files[i] = None
    THEN [vfs |-> v,
          id |-> (CHOOSE i \in 1..Len(v.files) :
                     /\ v.files[i] = None
                     /\ \A j \in 1..(i - 1) : v.files[j] # None) - 1]
    ELSE [vfs |-> [v EXCEPT !.files = Append(@, None)], id |-> Len(v.files)]

alloc_file_id(v) ==
    [vfs |-> [v EXCEPT !.files = Append(@, None)], id |-> Len(v.files)]

SetSlot(fs, file, entry) == [fs EXCEPT ![file + 1] = entry]

\* Variant of RemoveFile: the FileSet keeps the file.
RemoveFile_keeps_path(v, file) ==
    [vfs |-> [v EXCEPT !.root_changed = TRUE,
                       !.files = SetSlot(@, file, None)],
     ret |-> None]

\* Variant of RemoveFile: the slot keeps its content.
RemoveFile_keeps_slot(v, file) ==
    [vfs |-> [v EXCEPT !.local_file_set = FileSet_remove_file(@, file),
                       !.root_changed = TRUE],
     ret |-> None]

\* The (Some(file), None) arm.
RemoveFile(v, file) ==
    [vfs |-> [v EXCEPT !.local_file_set = FileSet_remove_file(@, file),
                       !.root_changed = TRUE,
                       !.files = SetSlot(@, file, None)],
     ret |-> None]

\* The (None, Some(content)) arm up to its tuple.
InsertFile(v, vpath) ==
    LET a == alloc_file_id(v)
    IN  [vfs |-> [a.vfs EXCEPT !.local_file_set = FileSet_insert(@, a.id, vpath),
                               !.root_changed = TRUE],
         id |-> a.id]

\* Variant of StoreFile: storing a text marks the roots as changed.
StoreFile_marks_roots(v, file, content) ==
    [vfs |-> [v EXCEPT !.change = change_file(@, file, Some(content.text)),
                       !.files = SetSlot(@, file, Some(content)),
                       !.root_changed = TRUE],
     ret |-> Some(file)]

\* Variant of StoreFile: an overlay already in the journal is kept.
StoreFile_first_wins(v, file, content) ==
    [vfs |-> [v EXCEPT !.change = IF file \in DOMAIN @.file_changes THEN @
                                  ELSE change_file(@, file, Some(content.text)),
                       !.files = SetSlot(@, file, Some(content))],
     ret |-> Some(file)]

\* The statements after the match.
StoreFile(v, file, content) ==
    [vfs |-> [v EXCEPT !.change = change_file(@, file, Some(content.text)),
                       !.files = SetSlot(@, file, Some(content))],
     ret |-> Some(file)]

\* Variant of set_uri_content: present content always opens a new file, the
\* path is not looked up first.
set_uri_content_no_lookup(v, uri, text) ==
    LET vpath == uri_to_vpath(uri)
    IN  IF vpath = None THEN [vfs |-> v, ret |-> None]
        ELSE LET content == IF text = None THEN None ELSE normalize(Unwrap(text))
                 found   == get_file_for_path(v.local_file_set, Unwrap(vpath))
             IN  IF IsSome(found) /\ content = None THEN RemoveFile(v, Unwrap(found))
                 ELSE IF content = None THEN [vfs |-> v, ret |-> None]
                 ELSE LET i == InsertFile(v, Unwrap(vpath))
                      IN  StoreFile(i.vfs, i.id, Unwrap(content))

set_uri_content(v, uri, text) ==
    LET vpath == uri_to_vpath(uri)
    IN  IF vpath = None THEN [vfs |-> v, ret |-> None]
        ELSE LET content == IF text = None THEN None ELSE normalize(Unwrap(text))
                 found   == get_file_for_path(v.local_file_set, Unwrap(vpath))
             IN  IF IsSome(found) /\ content = None THEN RemoveFile(v, Unwrap(found))
                 ELSE IF content = None THEN [vfs |-> v, ret |-> None]
                 ELSE IF IsSome(found) THEN StoreFile(v, Unwrap(found), Unwrap(content))
                 ELSE LET i == InsertFile(v, Unwrap(vpath))
                      IN  StoreFile(i.vfs, i.id, Unwrap(content))

\* Variant of take_change: the published root is built from a fresh FileSet.
take_change_empty_roots(v) ==
    LET taken_change == v.change
        v1 == [v EXCEPT !.change = Change_default]
    IN  IF v1.root_changed
        THEN [vfs |-> [v1 EXCEPT !.root_changed = FALSE],
              ret |-> set_roots(taken_change,
                                <<SourceRoot_new_local(FileSet_default)>>)]
        ELSE [vfs |-> v1, ret |-> taken_change]

\* Variant of take_change: the roots-changed flag is left set.
take_change_keep_flag(v) ==
    LET taken_change == v.change
        v1 == [v EXCEPT !.change = Change_default]
    IN  IF v1.root_changed
        THEN [vfs |-> v1,
              ret |-> set_roots(taken_change,
                                <<SourceRoot_new_local(v1.local_file_set)>>)]
        ELSE [vfs |-> v1, ret |-> taken_change]

\* Variant of take_change: the journal is cloned, not taken.
take_change_clone(v) ==
    IF v.root_changed
    THEN [vfs |-> [v EXCEPT !.root_changed = FALSE],
          ret |-> set_roots(v.change, <<SourceRoot_new_local(v.local_file_set)>>)]
    ELSE [vfs |-> v, ret |-> v.change]

take_change(v) ==
    LET taken_change == v.change
        v1 == [v EXCEPT !.change = Change_default]
    IN  IF v1.root_changed
        THEN [vfs |-> [v1 EXCEPT !.root_changed = FALSE],
              ret |-> set_roots(taken_change,
                                <<SourceRoot_new_local(v1.local_file_set)>>)]
        ELSE [vfs |-> v1, ret |-> taken_change]

get_uri_for_file(v, file) ==
    LET vpath == get_path_for_file(v.local_file_set, file)
    IN  IF vpath = None THEN None
        ELSE IF Unwrap(vpath) = <<>> \/ Head(Unwrap(vpath)) # "/" THEN None
        ELSE Some(Uri("file", local_root \o Tail(Unwrap(vpath))))

get_line_map(v, file) ==
    IF file < Len(v.files) /\ IsSome(v.files[file + 1])
    THEN Some(Unwrap(v.files[file + 1]).map)
    ELSE None


\* ------------------------------------------------------------------- state
VARIABLES
    files,            \* Vfs.files: Seq(Option([text, map]))
    local_file_set,   \* Vfs.local_file_set
    root_changed,     \* Vfs.root_changed
    change,           \* Vfs.change
    call,             \* the last call on the Vfs: operation, arguments, result
    taken,            \* Some(the Change returned) when the last call was take_change
    allocLog,         \* <<path, FileId>> of every open of a path without a file
    tombs,            \* <<path, FileId>> of every close of a path with a file
    touched,          \* a call of this period modified FileSet membership
    prevDrainSet,     \* Some(the FileSet at the drain that began this period)
    edits,            \* FileId -> the last text accepted for it in this period
    rewrote,          \* Some(f): the period's last accepted call replaced a
                      \* content that f got earlier in the period
    lmIn,             \* text given to LineMap::normalize
    lmOut,            \* Some(result of normalize) once called
    lmQ               \* the last LineMap query and its result

\* A period is the calls between two drains together with the drain that ends
\* it: touched, prevDrainSet and edits describe the period of the last call, so
\* they keep their values in the state a take_change leaves and start afresh
\* with the call after it.

vfsVars == <<files, local_file_set, root_changed, change>>
obsVars == <<call, taken, allocLog, tombs, touched, prevDrainSet, edits, rewrote>>
lmVars  == <<lmIn, lmOut, lmQ>>
vars    == <<files, local_file_set, root_changed, change, call, taken, allocLog,
             tombs, touched, prevDrainSet, edits, rewrote, lmIn, lmOut, lmQ>>

\* The Vfs as one value.
Vfs == [files |-> files, local_file_set |-> local_file_set,
        root_changed |-> root_changed, change |-> change]

\* ------------------------------------------------------------------ inputs
VfsUris ==
    { Uri("file", <<"ws", "a.txt">>), Uri("file", <<"ws", "b.txt">>),
      Uri("file", <<"other", "a.txt">>) }

\* "x", "a\r\nb", a text of u32::MAX + 1 bytes
VfsTexts ==
    { Text(<<120>>, 0), Text(<<97, CR, LF, 98>>, 0), Text(<<>>, U32_MAX_MIB + 1) }

\* Every text on the workspace URIs; the URI outside the workspace is ignored
\* whatever the text, so it is called with one text and with none.
VfsCalls ==
    { <<uri, text>> \in VfsUris \X ({None} \cup { Some(t) : t \in VfsTexts }) :
        uri.path[1] # "ws" => text \in {None, Some(Text(<<120>>, 0))} }

LMTexts == { Text(s, 0) : s \in Strings(MaxChars) } \cup { Text(<<>>, U32_MAX_MIB + 1) }

NoQuery == [op |-> "none", line |-> 0, col |-> 0, p |-> 0]

\* -------------------------------------------------------------------- Init
InitVfs ==
    /\ files = Vfs_new.files
    /\ local_file_set = Vfs_new.local_file_set
    /\ root_changed = Vfs_new.root_changed
    /\ change = Vfs_new.change
    /\ call = [op |-> "new", prev |-> "new", uri |-> None, text |-> None, ret |-> None]
    /\ taken = None
    /\ allocLog = <<>>
    /\ tombs = {}
    /\ touched = FALSE
    /\ prevDrainSet = None
    /\ edits = EmptyFn
    /\ rewrote = None

Init ==
    /\ InitVfs
    /\ lmIn = Text(<<>>, 0)
    /\ lmOut = None
    /\ lmQ = NoQuery

InitLM ==
    /\ InitVfs
    /\ lmIn \in LMTexts
    /\ lmOut = None
    /\ lmQ = NoQuery

\* ----------------------------------------------------------------- actions
\* The path a URI names inside the workspace, if any.
WorkspacePath(uri) ==
    IF Len(uri.path) >= 1 /\ uri.path[1] = "ws"
    THEN Some(<<"/">> \o Tail(uri.path))
    ELSE None

\* The period's histories as the next call finds them.
PeriodStart == call.op = "take_change"
CurTouched == IF PeriodStart THEN FALSE ELSE touched
CurEdits == IF PeriodStart THEN EmptyFn ELSE edits
CurPrevDrainSet == IF PeriodStart THEN Some(local_file_set) ELSE prevDrainSet
CurRewrote == IF PeriodStart THEN None ELSE rewrote

SetUriContent(uri, text) ==
    LET r    == set_uri_content(Vfs, uri, text)
        vp   == WorkspacePath(uri)
        was  == IF vp = None THEN None
                ELSE get_file_for_path(local_file_set, Unwrap(vp))
    IN  /\ Len(r.vfs.files) <= MaxFiles
        /\ files' = r.vfs.files
        /\ local_file_set' = r.vfs.local_file_set
        /\ root_changed' = r.vfs.root_changed
        /\ change' = r.vfs.change
        /\ call' = [op |-> "set_uri_content", prev |-> call.op, uri |-> Some(uri),
                    text |-> text, ret |-> r.ret]
        /\ allocLog' = IF IsSome(r.ret) /\ IsSome(vp) /\ was = None
                       THEN Append(allocLog, <<Unwrap(vp), Unwrap(r.ret)>>)
                       ELSE allocLog
        /\ tombs' = IF text = None /\ IsSome(was)
                    THEN tombs \cup {<<Unwrap(vp), Unwrap(was)>>}
                    ELSE tombs
        /\ touched' = (CurTouched \/ r.vfs.local_file_set # local_file_set)
        /\ edits' = IF IsSome(r.ret) /\ IsSome(text)
                    THEN (Unwrap(r.ret) :> Unwrap(text)) @@ CurEdits
                    ELSE CurEdits
        /\ rewrote' = IF IsSome(r.ret) /\ IsSome(text)
                      THEN (IF Unwrap(r.ret) \in DOMAIN CurEdits THEN r.ret ELSE None)
                      ELSE CurRewrote
        /\ taken' = None
        /\ prevDrainSet' = CurPrevDrainSet
        /\ UNCHANGED lmVars

TakeChange ==
    LET r == take_change(Vfs)
    IN  /\ files' = r.vfs.files
        /\ local_file_set' = r.vfs.local_file_set
        /\ root_changed' = r.vfs.root_changed
        /\ change' = r.vfs.change
        /\ call' = [op |-> "take_change", prev |-> call.op, uri |-> None,
                    text |-> None, ret |-> None]
        /\ taken' = Some(r.ret)
        /\ touched' = CurTouched
        /\ prevDrainSet' = CurPrevDrainSet
        /\ edits' = CurEdits
        /\ rewrote' = CurRewrote
        /\ UNCHANGED <<allocLog, tombs>>
        /\ UNCHANGED lmVars

Next ==
    \/ \E c \in VfsCalls : SetUriContent(c[1], c[2])
    \/ TakeChange

Spec == Init /\ [][Next]_vars

\* --------------------------------------------------------- LineMap harness
LMNormalize ==
    /\ lmOut = None
    /\ lmOut' = Some(normalize(lmIn))
    /\ UNCHANGED <<lmIn, lmQ>>
    /\ UNCHANGED <<vfsVars, obsVars>>

\* The LineMap and the text it was built from, once normalize accepted.
LMBuilt == IsSome(lmOut) /\ IsSome(Unwrap(lmOut))
LMMap == Unwrap(Unwrap(lmOut)).map
LMText == Unwrap(Unwrap(lmOut)).text

LMPos(line, col) ==
    /\ LMBuilt
    /\ lmQ' = [op |-> "pos", line |-> line, col |-> col, p |-> pos(LMMap, line, col)]
    /\ UNCHANGED <<lmIn, lmOut>>
    /\ UNCHANGED <<vfsVars, obsVars>>

LMLineCol(p) ==
    /\ LMBuilt
    /\ LET lc == line_col(LMMap, p)
       IN  lmQ' = [op |-> "line_col", line |-> lc[1], col |-> lc[2], p |-> p]
    /\ UNCHANGED <<lmIn, lmOut>>
    /\ UNCHANGED <<vfsVars, obsVars>>

NextLM ==
    \/ LMNormalize
    \/ \E line \in 0..(MaxChars + 1 + MaxSlack), col \in 0..(4 * MaxChars + MaxSlack) :
           /\ LMBuilt
           /\ line <= Len(LMMap.line_starts) - 1 + MaxSlack
           /\ col <= TextLen(LMText) + MaxSlack
           /\ LMPos(line, col)
    \/ \E p \in 0..(4 * MaxChars + MaxSlack) :
           /\ LMBuilt
           /\ p <= TextLen(LMText) + MaxSlack
           /\ LMLineCol(p)

\* ------------------------------------------- the Vfs under oversized texts
\* "x", a text of MAX_FILE_LEN + 1 bytes, a text of u32::MAX + 1 bytes, on one
\* workspace URI.
LargeCalls ==
    { <<Uri("file", <<"ws", "a.txt">>), text>> :
        text \in { None, Some(Text(<<120>>, 0)), Some(Text(<<120>>, 128)),
                   Some(Text(<<>>, U32_MAX_MIB + 1)) } }

NextLarge ==
    \/ \E c \in LargeCalls : SetUriContent(c[1], c[2])
    \/ TakeChange

SpecLarge == Init /\ [][NextLarge]_vars

SpecLM == InitLM /\ [][NextLM]_vars


\* ================================================================== claims
\* Reference notions, stated on the text itself.

\* p is a UTF-8 codepoint boundary of t (p = len included).
Boundary(t, p) == p >= Len(t.body) \/ ~(t.body[p + 1] \in 128..191)

NumNewlines(t) == Cardinality({ i \in 1..Len(t.body) : t.body[i] = LF })

RECURSIVE StripCR(_)
StripCR(body) ==
    IF body = <<>> THEN <<>>
    ELSE IF Head(body) = CR THEN StripCR(Tail(body))
    ELSE <<Head(body)>> \o StripCR(Tail(body))

Stripped(t) == Text(StripCR(t.body), t.pad)

\* UTF-16 code units of the codepoint a byte leads (0 for a continuation byte).
Utf16Units(b) ==
    IF b <= 127 THEN 1 ELSE IF b <= 191 THEN 0 ELSE IF b <= 239 THEN 1 ELSE 2

\* UTF-16 length of the bytes [from, to) of t.
RECURSIVE Utf16Len(_, _, _)
Utf16Len(t, from, to) ==
    IF from >= to THEN 0
    ELSE (IF from < Len(t.body) THEN Utf16Units(t.body[from + 1]) ELSE 1)
         + Utf16Len(t, from + 1, to)

\* Byte offsets of the first byte of line `line` and of its end (its newline,
\* or the end of the text).
LineBegin(t, line) ==
    IF line = 0 THEN 0 ELSE AfterNewlines(t.body)[line]
LineEnd(t, line) ==
    IF line < NumNewlines(t) THEN AfterNewlines(t.body)[line + 1] - 1
    ELSE TextLen(t)

\* The UTF-16 columns of line `line` an editor can send.
ValidCols(t, line) ==
    { Utf16Len(t, LineBegin(t, line), q) :
        q \in { b \in LineBegin(t, line)..LineEnd(t, line) : Boundary(t, b) } }

\* What a consumer starting empty holds after applying a Change.
Replay(c) ==
    [file_set |-> IF IsSome(c.roots) THEN Unwrap(c.roots)[1].file_set
                  ELSE FileSet_default,
     contents |-> [f \in { g \in DOMAIN c.file_changes : IsSome(c.file_changes[g]) }
                     |-> Unwrap(c.file_changes[f])]]

\* What the Vfs holds.
Current ==
    [file_set |-> local_file_set,
     contents |-> [f \in { g \in 0..(Len(files) - 1) : IsSome(files[g + 1]) }
                     |-> Unwrap(files[f + 1]).text]]

Drained == call.op = "take_change"
TakenChange == Unwrap(taken)
PrevSet == IF prevDrainSet = None THEN FileSet_default ELSE Unwrap(prevDrainSet)

\* C1: after set_uri_content calls and the first take_change, replaying the
\* drained Change onto an empty consumer gives the Vfs's current FileSet and
\* the current content of every file, with no content for tombstoned files.
C1_ReplayEqualsCurrent ==
    (Drained /\ prevDrainSet = None) => Replay(TakenChange) = Current

\* C2: set_uri_content with absent content for a path that has a live FileId f
\* removes f from the FileSet, clears its slot, sets the roots-changed flag,
\* records the overlay f -> None in the journal and returns None.
C2_CloseRecordsRemoval ==
    [][ (/\ call'.op = "set_uri_content"
         /\ call'.text = None
         /\ IsSome(WorkspacePath(Unwrap(call'.uri)))
         /\ IsSome(get_file_for_path(local_file_set,
                                     Unwrap(WorkspacePath(Unwrap(call'.uri))))))
        => LET f == Unwrap(get_file_for_path(local_file_set,
                                  Unwrap(WorkspacePath(Unwrap(call'.uri)))))
           IN  /\ f \notin DOMAIN local_file_set'.files
               /\ files'[f + 1] = None
               /\ root_changed'
               /\ f \in DOMAIN change'.file_changes
               /\ change'.file_changes[f] = None
               /\ call'.ret = None ]_vars

\* C3: for every accepted text and every byte offset p in [0, len] on a
\* codepoint boundary, pos(line_col(p)) = p.
C3_OffsetRoundTrip ==
    LMBuilt =>
        \A p \in 0..TextLen(LMText) :
            Boundary(LMText, p) =>
                pos(LMMap, line_col(LMMap, p)[1], line_col(LMMap, p)[2]) = p

\* line_col was asked for the end of a text with a newline and a 4-byte
\* codepoint, and pos maps the answer back.
C3_Witness ==
    /\ LMBuilt
    /\ lmQ.op = "line_col"
    /\ lmQ.p = TextLen(LMText)
    /\ \E i \in 1..Len(LMText.body) : LMText.body[i] = LF
    /\ \E i \in 1..Len(LMText.body) : LMText.body[i] >= 240
    /\ pos(LMMap, lmQ.line, lmQ.col) = lmQ.p

\* C4: for every text and every valid editor position (line, col), with line
\* a real line and col a UTF-16 column of it up to its end,
\* line_col(pos(line, col)) = (line, col); the end of the last line included.
C4_PositionRoundTrip ==
    LMBuilt =>
        \A line \in 0..NumNewlines(LMText) :
            \A col \in ValidCols(LMText, line) :
                line_col(LMMap, pos(LMMap, line, col)) = <<line, col>>

\* C5 as stated: line_starts is strictly increasing, starts with 0, ends with
\* len(text) and has (number of newlines) + 2 elements.
C5_LineStartsStrict ==
    LMBuilt =>
        LET ls == LMMap.line_starts
        IN  /\ \A i \in 1..(Len(ls) - 1) : ls[i] < ls[i + 1]
            /\ ls[1] = 0
            /\ ls[Len(ls)] = TextLen(LMText)
            /\ Len(ls) = NumNewlines(LMText) + 2

\* C5 amended: line_starts is non-decreasing and strictly increasing up to its
\* last step; it starts with 0, ends with len(text), has (number of
\* newlines) + 2 elements, and its last two elements are equal exactly when
\* the text is empty or ends with a newline.
C5_LineStartsSorted ==
    LMBuilt =>
        LET ls == LMMap.line_starts
            n  == Len(ls)
            t  == LMText
        IN  /\ n = NumNewlines(t) + 2
            /\ \A i \in 1..(n - 2) : ls[i] < ls[i + 1]
            /\ ls[n - 1] <= ls[n]
            /\ (ls[n - 1] = ls[n]) <=>
                   (TextLen(t) = 0 \/ (t.pad = 0 /\ t.body[Len(t.body)] = LF))
            /\ ls[1] = 0
            /\ ls[n] = TextLen(t)

\* normalize built the map of a text of several lines that ends with a newline.
C5_Witness ==
    /\ LMBuilt
    /\ Len(LMText.body) >= 3
    /\ LMText.body[Len(LMText.body)] = LF
    /\ NumNewlines(LMText) >= 2
    /\ LMMap.line_starts[Len(LMMap.line_starts)] =
           LMMap.line_starts[Len(LMMap.line_starts) - 1]

\* C6: FileIds are never reused: ids are handed out in increasing order, so
\* each differs from all earlier ones, and a path closed with content absent
\* never gets the FileId it had before the close again.
C6_FileIdsNeverReused ==
    /\ \A i, j \in 1..Len(allocLog) : i < j => allocLog[i][2] < allocLog[j][2]
    /\ \A t \in tombs : get_file_for_path(local_file_set, t[1]) # Some(t[2])

\* A path was opened, closed and opened again, and is live under its new id.
C6_Witness ==
    \E i, j \in 1..Len(allocLog) :
        /\ i < j
        /\ allocLog[i][1] = allocLog[j][1]
        /\ <<allocLog[i][1], allocLog[i][2]>> \in tombs
        /\ get_file_for_path(local_file_set, allocLog[j][1]) = Some(allocLog[j][2])

\* C7 as stated: a take_change carries roots (exactly one SourceRoot) iff the
\* FileSet at this drain differs from the FileSet at the previous drain (the
\* empty set for the first drain).
C7_RootsIffMembershipDiffers ==
    Drained =>
        /\ IsSome(TakenChange.roots) <=> (local_file_set # PrevSet)
        /\ IsSome(TakenChange.roots) => Len(Unwrap(TakenChange.roots)) = 1

\* C7 amended: a take_change carries roots (exactly one SourceRoot) iff some
\* set_uri_content call since the previous drain inserted a file into or
\* removed a file from the FileSet; so it does whenever the FileSet differs
\* from the one at the previous drain, and it does not after edits of existing
\* files only.
C7_RootsIffTouched ==
    Drained =>
        /\ IsSome(TakenChange.roots) <=> touched
        /\ IsSome(TakenChange.roots) => Len(Unwrap(TakenChange.roots)) = 1
        /\ (local_file_set # PrevSet) => IsSome(TakenChange.roots)

\* A drain carried roots although the FileSet equals the one at the previous
\* drain: a file was inserted and removed again in between.
C7_Witness ==
    /\ Drained
    /\ IsSome(TakenChange.roots)
    /\ touched
    /\ local_file_set = PrevSet
    /\ Len(files) >= 1

\* C8: after several accepted set_uri_content calls for one file between two
\* drains, the next take_change holds for that file the overlay Some(content
\* of the last call, '\r' removed); a live slot holds the same text and the
\* LineMap built from it.
C8_LastEditWins ==
    Drained =>
        \A f \in DOMAIN edits :
            /\ f \in DOMAIN TakenChange.file_changes
            /\ TakenChange.file_changes[f] = Some(Stripped(edits[f]))
            /\ IsSome(get_line_map(Vfs, f)) =>
                   /\ Unwrap(files[f + 1]).text = Stripped(edits[f])
                   /\ get_line_map(Vfs, f) =
                          Some(Unwrap(normalize(Stripped(edits[f]))).map)

\* A drain after a file's content was replaced within the period by "a\r\nb".
C8_Witness ==
    /\ Drained
    /\ IsSome(rewrote)
    /\ Unwrap(rewrote) \in DOMAIN edits
    /\ edits[Unwrap(rewrote)] = Text(<<97, CR, LF, 98>>, 0)
    /\ IsSome(get_line_map(Vfs, Unwrap(rewrote)))

\* C9: take_change drains completely: it leaves the journal empty and the
\* roots-changed flag false, and a take_change right after a take_change
\* returns the empty Change.
C9_DrainIsComplete ==
    Drained =>
        /\ ~root_changed
        /\ change = Change_default
        /\ call.prev = "take_change" => TakenChange = Change_default

\* Two drains in a row on a Vfs that holds a file.
C9_Witness ==
    /\ Drained
    /\ call.prev = "take_change"
    /\ TakenChange = Change_default
    /\ local_file_set # FileSet_default

\* C10: a set_uri_content call for a URI outside local_root, or with absent
\* content for a path without a live FileId, returns None and changes nothing
\* of the Vfs.
C10_IgnoredCallIsNoOp ==
    [][ (/\ call'.op = "set_uri_content"
         /\ \/ WorkspacePath(Unwrap(call'.uri)) = None
            \/ /\ call'.text = None
               /\ get_file_for_path(local_file_set,
                                    Unwrap(WorkspacePath(Unwrap(call'.uri)))) = None)
        => /\ call'.ret = None
           /\ UNCHANGED <<files, local_file_set, root_changed, change>> ]_vars

\* A call with a text for the URI outside the workspace returned None on a Vfs
\* that holds a file and a pending journal.
C10_Witness ==
    /\ call.op = "set_uri_content"
    /\ WorkspacePath(Unwrap(call.uri)) = None
    /\ IsSome(call.text)
    /\ call.ret = None
    /\ Len(files) >= 1
    /\ change # Change_default

\* text.len() > MAX_FILE_LEN, limb-wise as in ExceedsU32.
ExceedsMaxFileLen(t) ==
    \/ t.pad > MAX_FILE_LEN \div MiB
    \/ (t.pad = MAX_FILE_LEN \div MiB /\ Len(t.body) > MAX_FILE_LEN % MiB)

\* C11: set_uri_content rejects every text longer than MAX_FILE_LEN: the call
\* returns None and no slot and no journal overlay ever holds such a text.
C11_RejectsOverMaxFileLen ==
    /\ (call.op = "set_uri_content" /\ IsSome(call.text)
          /\ ExceedsMaxFileLen(Unwrap(call.text))) => call.ret = None
    /\ \A i \in 1..Len(files) :
           IsSome(files[i]) => ~ExceedsMaxFileLen(Unwrap(files[i]).text)
    /\ \A f \in DOMAIN change.file_changes :
           IsSome(change.file_changes[f]) =>
               ~ExceedsMaxFileLen(Unwrap(change.file_changes[f]))

\* UTF-8 length of the codepoint a leading byte starts.
Utf8Len(b) == IF b <= 127 THEN 1 ELSE IF b <= 223 THEN 2 ELSE IF b <= 239 THEN 3 ELSE 4

\* Offset of the first byte after line `line`, its newline included.
LineLimit(t, line) ==
    IF line < NumNewlines(t) THEN AfterNewlines(t.body)[line + 1] ELSE TextLen(t)

\* (offset within the line, utf8_len - utf16_len) of every non-ASCII codepoint
\* whose leading byte lies in [from, to), in ascending order; base is the
\* offset of the line's first byte.
RECURSIVE ExpectedDiffs(_, _, _, _)
ExpectedDiffs(t, base, from, to) ==
    IF from >= to \/ from >= Len(t.body) THEN <<>>
    ELSE LET b == t.body[from + 1]
         IN  (IF b >= 192 THEN << <<from - base, Utf8Len(b) - Utf16Units(b)>> >> ELSE <<>>)
             \o ExpectedDiffs(t, base, from + 1, to)

LineExpectedDiffs(t, line) ==
    ExpectedDiffs(t, LineBegin(t, line), LineBegin(t, line), LineLimit(t, line))

\* C12: char_diffs has an entry for line i exactly when line i holds a
\* non-ASCII codepoint, and the entry lists in ascending order one pair
\* (offset of the leading byte within the line, utf8_len - utf16_len) per
\* non-ASCII codepoint: 1, 2 and 2 for 2-, 3- and 4-byte codepoints.
C12_CharDiffsExact ==
    LMBuilt =>
        /\ DOMAIN LMMap.char_diffs =
               { i \in 0..NumNewlines(LMText) : LineExpectedDiffs(LMText, i) # <<>> }
        /\ \A i \in DOMAIN LMMap.char_diffs :
               LMMap.char_diffs[i] = LineExpectedDiffs(LMText, i)
        /\ \A i \in DOMAIN LMMap.char_diffs :
               \A k \in 1..Len(LMMap.char_diffs[i]) :
                   LET b == LMText.body[LineBegin(LMText, i) + LMMap.char_diffs[i][k][1] + 1]
                   IN  LMMap.char_diffs[i][k][2] =
                           (IF b <= 223 THEN 1 ELSE 2)

\* normalize built the map of a text whose first line is ASCII only and whose
\* second line holds a 2-byte and a 3-byte codepoint.
C12_Witness ==
    /\ LMBuilt
    /\ LMText.body = <<LF, 195, 159, 226, 132, 157>>
    /\ DOMAIN LMMap.char_diffs = {1}
    /\ LMMap.char_diffs[1] = << <<0, 1>>, <<2, 2>> >>

\* C13 as stated: for a line index out of range (line >= length of
\* line_starts) pos(line, col) is 0 for every col.
C13_OutOfRangeLineGivesZero ==
    LMBuilt =>
        \A line \in Len(LMMap.line_starts)..(Len(LMMap.line_starts) - 1 + MaxSlack) :
            \A col \in 0..(TextLen(LMText) + MaxSlack) :
                pos(LMMap, line, col) = 0

\* C13 amended: for a line index out of range pos(line, col) takes 0 as the
\* line's offset and adjusts nothing, so it returns col itself.
C13_OutOfRangeLineGivesCol ==
    LMBuilt =>
        \A line \in Len(LMMap.line_starts)..(Len(LMMap.line_starts) - 1 + MaxSlack) :
            \A col \in 0..(TextLen(LMText) + MaxSlack) :
                pos(LMMap, line, col) = col

\* pos was asked for a line past line_starts and a column above 0, on a text
\* whose first line needs column adjustment, and returned the column.
C13_Witness ==
    /\ LMBuilt
    /\ lmQ.op = "pos"
    /\ lmQ.line >= Len(LMMap.line_starts)
    /\ lmQ.col > 1
    /\ lmQ.p = lmQ.col
    /\ 0 \in DOMAIN LMMap.char_diffs

NoCR(t) == \A i \in 1..Len(t.body) : t.body[i] # CR

\* C14: every text in a slot and in the journal has no '\r' and is the text
\* passed to set_uri_content with every '\r' removed; the slot's LineMap is
\* built over it, so for "a\r\nb" position (1, 0) is byte offset 2.
C14_StoredTextIsStripped ==
    /\ \A i \in 1..Len(files) :
           IsSome(files[i]) =>
               /\ NoCR(Unwrap(files[i]).text)
               /\ Unwrap(files[i]).map.line_starts[Len(Unwrap(files[i]).map.line_starts)]
                      = TextLen(Unwrap(files[i]).text)
    /\ \A f \in DOMAIN change.file_changes :
           IsSome(change.file_changes[f]) => NoCR(Unwrap(change.file_changes[f]))
    /\ (call.op = "set_uri_content" /\ IsSome(call.ret)) =>
           LET f == Unwrap(call.ret)
               t == Unwrap(call.text)
           IN  /\ Unwrap(files[f + 1]).text = Stripped(t)
               /\ change.file_changes[f] = Some(Stripped(t))
               /\ Unwrap(files[f + 1]).map = Unwrap(normalize(Stripped(t))).map
               /\ t = Text(<<97, CR, LF, 98>>, 0) =>
                      pos(Unwrap(get_line_map(Vfs, f)), 1, 0) = 2

\* set_uri_content stored "a\r\nb": the slot holds "a\nb" and (1, 0) is 2.
C14_Witness ==
    /\ call.op = "set_uri_content"
    /\ call.text = Some(Text(<<97, CR, LF, 98>>, 0))
    /\ IsSome(call.ret)
    /\ Unwrap(files[Unwrap(call.ret) + 1]).text = Text(<<97, LF, 98>>, 0)
    /\ pos(Unwrap(get_line_map(Vfs, Unwrap(call.ret))), 1, 0) = 2

\* The file a call's URI names in the FileSet before the call.
FileBefore(c) ==
    IF WorkspacePath(Unwrap(c.uri)) = None THEN None
    ELSE get_file_for_path(local_file_set, Unwrap(WorkspacePath(Unwrap(c.uri))))

\* C15: set_uri_content with a text rejected as too large, for a path with a
\* live FileId, returns None and leaves the file untouched: FileSet, slots,
\* roots-changed flag and journal keep their values.
C15_RejectedTextLeavesFile ==
    [][ (/\ call'.op = "set_uri_content"
         /\ IsSome(call'.text)
         /\ normalize(Unwrap(call'.text)) = None
         /\ IsSome(FileBefore(call')))
        => /\ call'.ret = None
           /\ UNCHANGED <<files, local_file_set, root_changed, change>> ]_vars

\* C16: set_uri_content with accepted content for a path with a live FileId f
\* returns Some(f), replaces f's slot with the new (text, LineMap), records
\* f -> Some(text), and leaves the FileSet, the roots-changed flag, the
\* number of slots, every other slot and every other overlay unchanged.
C16_EditKeepsTheRest ==
    [][ (/\ call'.op = "set_uri_content"
         /\ IsSome(call'.text)
         /\ normalize(Unwrap(call'.text)) # None
         /\ IsSome(FileBefore(call')))
        => LET f == Unwrap(FileBefore(call'))
               t == Stripped(Unwrap(call'.text))
           IN  /\ call'.ret = Some(f)
               /\ Len(files') = Len(files)
               /\ Unwrap(files'[f + 1]).text = t
               /\ Unwrap(files'[f + 1]).map = Unwrap(normalize(t)).map
               /\ \A g \in 0..(Len(files) - 1) : g # f => files'[g + 1] = files[g + 1]
               /\ DOMAIN change'.file_changes = DOMAIN change.file_changes \cup {f}
               /\ change'.file_changes[f] = Some(t)
               /\ \A g \in DOMAIN change.file_changes :
                      g # f => change'.file_changes[g] = change.file_changes[g]
               /\ change'.roots = change.roots
               /\ local_file_set' = local_file_set
               /\ root_changed' = root_changed ]_vars

\* An edit replaced the content of a file while another file is live and no
\* root change is pending.
C16_Witness ==
    /\ call.op = "set_uri_content"
    /\ IsSome(call.ret)
    /\ rewrote = call.ret
    /\ ~root_changed
    /\ \E g \in DOMAIN local_file_set.files : g # Unwrap(call.ret)

\* C17: when take_change returns roots, the published SourceRoot holds the
\* FileSet the Vfs has at that drain, whatever it was when the roots-changed
\* flag was first set.
C17_RootsAreDrainTimeFileSet ==
    (Drained /\ IsSome(TakenChange.roots)) =>
        /\ Unwrap(TakenChange.roots)[1].file_set = local_file_set
        /\ Unwrap(TakenChange.roots)[1].local

\* A drain published two files that were both opened since the previous
\* drain: the flag was first set when the FileSet held one of them.
C17_Witness ==
    /\ Drained
    /\ IsSome(TakenChange.roots)
    /\ PrevSet = FileSet_default
    /\ Cardinality(DOMAIN Unwrap(TakenChange.roots)[1].file_set.files) = 2

\* C18: a tombstoned FileId stays tombstoned: no set_uri_content or
\* take_change gives its slot content again or puts it back in the FileSet,
\* so get_line_map and get_uri_for_file stay None for it; slots are never
\* dropped.
C18_NoResurrection ==
    [][ /\ Len(files') >= Len(files)
        /\ \A f \in 0..(Len(files) - 1) :
               files[f + 1] = None =>
                   /\ files'[f + 1] = None
                   /\ f \notin DOMAIN local_file_set'.files
                   /\ get_line_map(Vfs', f) = None
                   /\ get_uri_for_file(Vfs', f) = None ]_vars

\* After a drain, FileId 0 is a tombstone while its path is live as FileId 1.
C18_Witness ==
    /\ Drained
    /\ Len(files) >= 2
    /\ files[1] = None
    /\ IsSome(files[2])
    /\ allocLog[1][1] = allocLog[2][1]
    /\ get_uri_for_file(Vfs, 0) = None
    /\ IsSome(get_uri_for_file(Vfs, 1))

\* C19: slots and FileSet agree: a FileId below the number of slots has a
\* (text, LineMap) slot iff the FileSet maps it to a path; get_line_map is
\* Some exactly for those, None for tombstoned and never allocated ids; every
\* FileId of the FileSet is an index of the slot vector.
C19_SlotsMatchFileSet ==
    /\ \A f \in 0..(Len(files) - 1) :
           /\ IsSome(files[f + 1]) <=> f \in DOMAIN local_file_set.files
           /\ IsSome(get_line_map(Vfs, f)) <=> f \in DOMAIN local_file_set.files
    /\ \A f \in DOMAIN local_file_set.files : f < Len(files)
    /\ \A f \in Len(files)..(MaxFiles + 1) : get_line_map(Vfs, f) = None

\* A close left a tombstone next to a live file.
C19_Witness ==
    /\ call.op = "set_uri_content"
    /\ call.text = None
    /\ \E f \in 0..(Len(files) - 1) : files[f + 1] = None
    /\ \E f \in 0..(Len(files) - 1) :
           IsSome(files[f + 1]) /\ f \in DOMAIN local_file_set.files

\* The two maps of a FileSet mirror each other.
Bijection(fs) ==
    /\ \A f \in DOMAIN fs.files :
           fs.files[f] \in DOMAIN fs.paths /\ fs.paths[fs.files[f]] = f
    /\ \A p \in DOMAIN fs.paths :
           fs.paths[p] \in DOMAIN fs.files /\ fs.files[fs.paths[p]] = p

\* C20: the FileSet is a bijection between live FileIds and paths, and a call
\* that inserts a file does so for a path and a FileId the FileSet did not
\* hold, so FileSet::insert's uniqueness assertion cannot fail.
C20_FileSetIsBijection ==
    /\ [](Bijection(local_file_set))
    /\ [][ \A f \in (DOMAIN local_file_set'.files) \ (DOMAIN local_file_set.files) :
               /\ local_file_set'.files[f] \notin DOMAIN local_file_set.paths
               /\ \A g \in DOMAIN local_file_set.files :
                      /\ g \in DOMAIN local_file_set'.files
                      /\ local_file_set'.files[g] = local_file_set.files[g] ]_vars

\* Two files are live under two paths, the latest call a set_uri_content
\* that followed another one and returned a FileId.
C20_Witness ==
    /\ Cardinality(DOMAIN local_file_set.files) = 2
    /\ Cardinality(DOMAIN local_file_set.paths) = 2
    /\ call.op = "set_uri_content"
    /\ IsSome(call.ret)
    /\ call.prev = "set_uri_content"

====
